---- MODULE Spec2Model ----
(***************************************************************************)
(* Model of server.py: a thread-per-connection static-file HTTP/1.x        *)
(* server.  start_server accepts connections and starts one thread per     *)
(* connection running handle_client_connection; send_response renders and  *)
(* writes one response.                                                    *)
(*                                                                         *)
(* Text is modelled structurally.  A path string is a sequence of atoms:   *)
(* the separator "/" and segment names ("..", ".", "index.html", ...).     *)
(* A request-line token is such a sequence too, so "GET" is <<"GET">> and  *)
(* "/index.html" is <<"/", "index.html">>.  Bodies are sequences of byte   *)
(* values.                                                                 *)
(***************************************************************************)
EXTENDS Integers, Sequences, FiniteSets, TLC

\* ---------------------------------------------------------------- bounds
MaxConns == 2
MaxRequests == 2

Conns == 1..MaxConns

\* ------------------------------------------------------- text primitives
GET == <<"GET">>
POST == <<"POST">>
HTTP10 == <<"HTTP/1.0">>
HTTP11 == <<"HTTP/1.1">>
HTTP20 == <<"HTTP/2.0">>

\* str(status_code): the decimal digits of n as character codes
RECURSIVE Digits(_)
Digits(n) == IF n < 10 THEN <<48 + n>> ELSE Digits(n \div 10) \o <<48 + (n % 10)>>

\* the character codes of the reason phrases passed at lines 23, 28, 41, 44
StrChars(s) ==
  CASE s = "Bad Request" -> <<66, 97, 100, 32, 82, 101, 113, 117, 101, 115, 116>>
    [] s = "Not Implemented" ->
         <<78, 111, 116, 32, 73, 109, 112, 108, 101, 109, 101, 110, 116, 101, 100>>
    [] s = "Not Found" -> <<78, 111, 116, 32, 70, 111, 117, 110, 100>>
    [] s = "Forbidden" -> <<70, 111, 114, 98, 105, 100, 100, 101, 110>>

\* str.encode('utf-8') on a sequence of character codes
RECURSIVE encode(_)
encode(chars) ==
  IF chars = <<>> THEN <<>>
  ELSE LET c == Head(chars) IN
       (IF c < 128 THEN <<c>>
        ELSE IF c < 2048 THEN <<192 + (c \div 64), 128 + (c % 64)>>
        ELSE <<224 + (c \div 4096), 128 + ((c \div 64) % 64), 128 + (c % 64)>>)
       \o encode(Tail(chars))

\* ------------------------------------------------------------ filesystem
\* document_root as passed to start_server (an absolute path)
document_root == <<"/", "www">>

IndexFile == <<"/", "www", "/", "index.html">>
PlainFile == <<"/", "www", "/", "a">>
SubDir == <<"/", "www", "/", "d">>
OutsideFile == <<"/", "secret.txt">>

FsPaths == {IndexFile, PlainFile, SubDir, OutsideFile}
MutablePaths == {IndexFile, PlainFile}

\* the bytes stored in each file
FileBytes(p) ==
  CASE p = IndexFile -> <<104, 105>>
    [] p = PlainFile -> <<0, 255, 10>>
    [] p = OutsideFile -> <<115>>
    [] OTHER -> <<>>

NoEntry == [type |-> "none", readable |-> FALSE]
RegFile(r) == [type |-> "file", readable |-> r]
Directory == [type |-> "dir", readable |-> TRUE]

InitFs ==
  [p \in FsPaths |-> IF p = SubDir THEN Directory ELSE RegFile(TRUE)]

VARIABLES
  listener,   \* server_socket / accept loop: "listening" or "closed"
  fs,         \* the filesystem: path -> [type, readable]
  pc,         \* per connection: position of its handler thread
  request,    \* per connection: the decoded text of the last recv
  content,    \* per connection: the bytes read from the file (line 49)
  nrecv,      \* per connection: number of requests received and decoded
  nreq,       \* per connection: number of requests the client has begun to send
  reads,      \* per connection: files opened while serving the current request
  out,        \* per connection: the responses written in full to the socket
  partial,    \* per connection: a sendall failed part-way
  closes,     \* per connection: number of client_socket.close() calls
  exit        \* per connection: the way the while loop was left

vars == <<listener, fs, pc, request, content, nrecv, nreq, reads, out, partial, closes, exit>>

Stat(f, p) == IF p \in DOMAIN f THEN f[p] ELSE NoEntry

\* os.path.isfile
isfile(f, p) == Stat(f, p).type = "file"

\* os.access(p, os.R_OK)
access(f, p) == Stat(f, p).type # "none" /\ Stat(f, p).readable

\* ------------------------------------------------------------ path logic
\* str.lstrip('/')
RECURSIVE lstrip(_)
lstrip(s) == IF s # <<>> /\ Head(s) = "/" THEN lstrip(Tail(s)) ELSE s

\* os.path.join(a, b)
join(a, b) ==
  IF b # <<>> /\ Head(b) = "/" THEN b
  ELSE IF a = <<>> \/ a[Len(a)] = "/" THEN a \o b
  ELSE a \o <<"/">> \o b

\* the loop of posixpath.normpath over the components
RECURSIVE NormComps(_, _, _)
NormComps(comps, new_comps, initial_slashes) ==
  IF comps = <<>> THEN new_comps
  ELSE LET comp == Head(comps)
           n == Len(new_comps)
           nxt == IF comp = "." THEN new_comps
                  ELSE IF comp # ".."
                          \/ (initial_slashes = 0 /\ n = 0)
                          \/ (n > 0 /\ new_comps[n] = "..")
                       THEN Append(new_comps, comp)
                  ELSE IF n > 0 THEN SubSeq(new_comps, 1, n - 1)
                  ELSE new_comps
       IN NormComps(Tail(comps), nxt, initial_slashes)

RECURSIVE JoinComps(_)
JoinComps(comps) ==
  IF comps = <<>> THEN <<>>
  ELSE IF Len(comps) = 1 THEN <<comps[1]>>
  ELSE <<comps[1], "/">> \o JoinComps(Tail(comps))

\* os.path.normpath
normpath(path) ==
  IF path = <<>> THEN <<".">>
  ELSE LET starts(k) == Len(path) >= k /\ \A i \in 1..k : path[i] = "/"
           initial_slashes == IF ~starts(1) THEN 0
                              ELSE IF starts(2) /\ ~starts(3) THEN 2 ELSE 1
           comps == SelectSeq(path, LAMBDA a : a # "/")
           joined == JoinComps(NormComps(comps, <<>>, initial_slashes))
           res == [i \in 1..initial_slashes |-> "/"] \o joined
       IN IF res = <<>> THEN <<".">> ELSE res

\* mimetypes.guess_type(file_path)[0], None when the name has no known extension
guess_type(file_path) ==
  LET name == file_path[Len(file_path)] IN
  CASE name = "index.html" -> "text/html"
    [] name = "secret.txt" -> "text/plain"
    [] OTHER -> "None"

\* ------------------------------------------------------------- responses
HtmlOpen == <<60, 104, 116, 109, 108, 62, 60, 98, 111, 100, 121, 62, 60, 104, 49, 62>>
HtmlClose ==
  <<60, 47, 104, 49, 62, 60, 47, 98, 111, 100, 121, 62, 60, 47, 104, 116, 109, 108, 62>>

\* bytes.decode('ascii', 'ignore'): drops every byte above 127
RECURSIVE AsciiOnly(_)
AsciiOnly(b) ==
  IF b = <<>> THEN <<>>
  ELSE (IF Head(b) < 128 THEN <<Head(b)>> ELSE <<>>) \o AsciiOnly(Tail(b))

\* send_response with the file re-encoded as text before it is sent
send_response_text(status_code, body, http_version, content_type) ==
  IF status_code = 200
  THEN [version |-> http_version, code |-> 200, reason |-> "OK",
        ctype |-> content_type, clen |-> Len(body),
        conn |-> IF http_version = HTTP11 THEN "keep-alive" ELSE "close",
        body |-> AsciiOnly(body)]
  ELSE LET response_body ==
             HtmlOpen \o Digits(status_code) \o <<32>> \o StrChars(body) \o HtmlClose
       IN [version |-> http_version, code |-> status_code, reason |-> body,
           ctype |-> "text/html", clen |-> Len(response_body),
           conn |-> "close", body |-> encode(response_body)]

\* send_response: the response handed to sendall.  For status 200 `body` is
\* the file's bytes and content_type the MIME type; otherwise `body` is the
\* reason phrase and content_type is unused.
send_response(status_code, body, http_version, content_type) ==
  IF status_code = 200
  THEN [version |-> http_version, code |-> 200, reason |-> "OK",
        ctype |-> content_type, clen |-> Len(body),
        conn |-> IF http_version = HTTP11 THEN "keep-alive" ELSE "close",
        body |-> body]
  ELSE LET response_body ==
             HtmlOpen \o Digits(status_code) \o <<32>> \o StrChars(body) \o HtmlClose
       IN [version |-> http_version, code |-> status_code, reason |-> body,
           ctype |-> "text/html", clen |-> Len(response_body),
           conn |-> "close", body |-> encode(response_body)]

\* response_headers with a single empty string at the end of the list
response_headers_short(r) ==
  << [t |-> "status", version |-> r.version, code |-> r.code, reason |-> r.reason],
     [t |-> "header", name |-> "Content-Type", value |-> r.ctype],
     [t |-> "length", name |-> "Content-Length", value |-> r.clen],
     [t |-> "header", name |-> "Connection", value |-> r.conn],
     [t |-> "empty"] >>

\* lines 76-83 and 90-97: the list response_headers, one element per string
response_headers(r) ==
  << [t |-> "status", version |-> r.version, code |-> r.code, reason |-> r.reason],
     [t |-> "header", name |-> "Content-Type", value |-> r.ctype],
     [t |-> "length", name |-> "Content-Length", value |-> r.clen],
     [t |-> "header", name |-> "Connection", value |-> r.conn],
     [t |-> "empty"],
     [t |-> "empty"] >>

\* '\r\n'.join(list): the strings with a CRLF between neighbours; an empty
\* string contributes nothing
RECURSIVE crlf_join(_)
crlf_join(list) ==
  IF list = <<>> THEN <<>>
  ELSE (IF Head(list).t = "empty" THEN <<>> ELSE <<Head(list)>>)
       \o (IF Len(list) > 1 THEN <<[t |-> "crlf"]>> ELSE <<>>)
       \o crlf_join(Tail(list))

\* lines 84-85 and 98-99: what sendall is given, the joined header block
\* followed by the body bytes
wire(r) ==
  crlf_join(response_headers(r)) \o [i \in 1..Len(r.body) |-> [t |-> "byte", v |-> r.body[i]]]

\* ---------------------------------------------------------------- inputs
UrlPaths ==
  { <<"/">>,
    <<"/", "index.html">>,
    <<"/", "a">>,
    <<"/", "d">>,
    <<"/", "nope">>,
    <<"/", "d", "/", "..", "/", "a">>,
    <<"/", "..", "/", "secret.txt">> }

Versions == {HTTP10, HTTP11, HTTP20}

\* first lines of what one recv can return, as their whitespace-separated tokens
RequestLines ==
  { <<>>, <<GET>>, <<GET, <<"/">> >>, <<<<"Host:">>, <<"x">> >> }
  \cup { <<GET, p, v>> : p \in UrlPaths, v \in Versions }
  \cup { <<POST, p, v>> : p \in {<<"/">>, <<"/", "nope">>}, v \in Versions }
  \cup { << <<"Accept:">>, <<"x">>, <<"y">> >>,
         <<GET, <<"/">>, HTTP11, <<"x">> >>,
         << <<"User-Agent:">>, <<"a">>, <<"b">>, <<"c">> >> }

\* first lines of the rest of a request whose first bytes an earlier recv
\* returned: header lines
HeaderLines ==
  { << <<"Host:">>, <<"x">> >>,
    << <<"Accept:">>, <<"x">>, <<"y">> >>,
    << <<"User-Agent:">>, <<"a">>, <<"b">>, <<"c">> >> }

\* what one recv(1024) can deliver: bytes that decode to text with the given
\* first line, or bytes that are not valid UTF-8.  cont tells whether the
\* bytes continue the request the previous recv returned the start of (a
\* request longer than one read) or begin a new request.
Chunks ==
  { [decodable |-> TRUE, parts |-> l, cont |-> FALSE] : l \in RequestLines }
  \cup { [decodable |-> TRUE, parts |-> l, cont |-> TRUE] : l \in HeaderLines }
  \cup { [decodable |-> FALSE, parts |-> <<>>, cont |-> FALSE] }

\* the inputs used when several connections run side by side
ServerChunks ==
  { [decodable |-> TRUE, parts |-> l, cont |-> FALSE] :
      l \in { <<>>, <<GET, <<"/">>, HTTP11>>, <<GET, <<"/">>, HTTP10>>,
              <<GET, <<"/">>, HTTP11, <<"x">> >> } }

\* ----------------------------------------------------- handler's locals
\* lines 26, 33-38: method, path, http_version = parts; file_path
method(c) == request[c][1]
http_version(c) == request[c][3]
\* file_path_of without the substitution of lines 33-34
file_path_of_raw(path) == normpath(join(document_root, lstrip(path)))

file_path_of(path) ==
  LET p == IF path = <<"/">> THEN <<"/", "index.html">> ELSE path
  IN normpath(join(document_root, lstrip(p)))
file_path(c) == file_path_of(request[c][2])

SendPcs == {"send400", "send501", "send404", "send403", "send200"}

\* Response with an unreadable file reported as 401 instead of 403
ResponseUnauthorized(c) ==
  CASE pc[c] = "send400" -> send_response(400, "Bad Request", HTTP11, "None")
    [] pc[c] = "send501" -> send_response(501, "Not Implemented", http_version(c), "None")
    [] pc[c] = "send404" -> send_response(404, "Not Found", http_version(c), "None")
    [] pc[c] = "send403" -> send_response(401, "Forbidden", http_version(c), "None")
    [] pc[c] = "send200" ->
         LET mime_type == guess_type(file_path(c)) IN
         send_response(200, content[c], http_version(c),
                       IF mime_type = "None" THEN "application/octet-stream"
                       ELSE mime_type)

\* the response of the send_response call the handler is at
Response(c) ==
  CASE pc[c] = "send400" -> send_response(400, "Bad Request", HTTP11, "None")
    [] pc[c] = "send501" -> send_response(501, "Not Implemented", http_version(c), "None")
    [] pc[c] = "send404" -> send_response(404, "Not Found", http_version(c), "None")
    [] pc[c] = "send403" -> send_response(403, "Forbidden", http_version(c), "None")
    [] pc[c] = "send200" ->
         LET mime_type == guess_type(file_path(c)) IN
         send_response(200, content[c], http_version(c),
                       IF mime_type = "None" THEN "application/octet-stream"
                       ELSE mime_type)

\* ------------------------------------------------- handle_client_connection
\* line 9: client_socket.settimeout(timeout)
SetTimeout(c) ==
  /\ pc[c] = "start"
  /\ pc' = [pc EXCEPT ![c] = "recv"]
  /\ UNCHANGED <<listener, fs, request, content, nrecv, nreq, reads, out, partial, closes, exit>>

\* Break where the generic exception handler returns instead of breaking
BreakReturn(c, how) ==
  /\ pc' = [pc EXCEPT ![c] = IF how = "exception" THEN "done" ELSE "close"]
  /\ exit' = [exit EXCEPT ![c] = how]

\* the loop is left (break): the thread goes on to line 69
Break(c, how) ==
  /\ pc' = [pc EXCEPT ![c] = "close"]
  /\ exit' = [exit EXCEPT ![c] = how]

\* line 12: recv returns data; decode either yields the text or raises
Recv(c, data) ==
  /\ pc[c] = "recv"
  /\ nrecv[c] < MaxRequests
  /\ data.cont => nrecv[c] > 0
  /\ IF data.decodable
     THEN /\ request' = [request EXCEPT ![c] = data.parts]
          /\ nrecv' = [nrecv EXCEPT ![c] = @ + 1]
          /\ nreq' = [nreq EXCEPT ![c] = IF data.cont THEN @ ELSE @ + 1]
          /\ reads' = [reads EXCEPT ![c] = 0]
          /\ pc' = [pc EXCEPT ![c] = "parse"]
          /\ UNCHANGED exit
     ELSE /\ Break(c, "exception")
          /\ UNCHANGED <<request, nrecv, nreq, reads>>
  /\ UNCHANGED <<listener, fs, content, out, partial, closes>>

\* lines 12-14: recv returns no bytes (the peer closed)
RecvEof(c) ==
  /\ pc[c] = "recv"
  /\ Break(c, "eof")
  /\ UNCHANGED <<listener, fs, request, content, nrecv, nreq, reads, out, partial, closes>>

\* RecvTimeout that reports the timeout to the client with a 408 response
RecvTimeout408(c) ==
  /\ pc[c] = "recv"
  /\ out' = [out EXCEPT ![c] =
       Append(@, [n |-> nrecv[c] + 1,
                  resp |-> [send_response(400, "Bad Request", HTTP11, "None")
                              EXCEPT !.code = 408]])]
  /\ Break(c, "idle_timeout")
  /\ UNCHANGED <<listener, fs, request, content, nrecv, nreq, reads, partial, closes>>

\* RecvTimeout whose except clause continues the loop: the handler waits again
RecvTimeoutContinue(c) ==
  /\ pc[c] = "recv"
  /\ UNCHANGED vars

\* lines 12, 63-64: no bytes within the timeout, recv raises socket.timeout
RecvTimeout(c) ==
  /\ pc[c] = "recv"
  /\ Break(c, "idle_timeout")
  /\ UNCHANGED <<listener, fs, request, content, nrecv, nreq, reads, out, partial, closes>>

\* lines 12, 65-67: recv raises another error (connection reset)
RecvError(c) ==
  /\ pc[c] = "recv"
  /\ Break(c, "exception")
  /\ UNCHANGED <<listener, fs, request, content, nrecv, nreq, reads, out, partial, closes>>

\* ParseTarget with the length test off by one (len(parts) < 2)
ParseTargetShort(c) ==
  LET parts == request[c] IN
  IF Len(parts) < 2 THEN "send400"
  ELSE IF Len(parts) # 3 THEN "raise"
  ELSE IF method(c) # GET THEN "send501"
  ELSE IF ~isfile(fs, file_path(c)) THEN "send404"
  ELSE IF ~access(fs, file_path(c)) THEN "send403"
  ELSE "read"

\* ParseTarget with the method test placed after the path checks
ParseTargetPathFirst(c) ==
  LET parts == request[c] IN
  IF Len(parts) < 3 THEN "send400"
  ELSE IF Len(parts) > 3 THEN "raise"
  ELSE IF ~isfile(fs, file_path(c)) THEN "send404"
  ELSE IF ~access(fs, file_path(c)) THEN "send403"
  ELSE IF method(c) # GET THEN "send501"
  ELSE "read"

\* ParseTarget with the readability test placed before the existence test
ParseTargetAccessFirst(c) ==
  LET parts == request[c] IN
  IF Len(parts) < 3 THEN "send400"
  ELSE IF Len(parts) > 3 THEN "raise"
  ELSE IF method(c) # GET THEN "send501"
  ELSE IF ~access(fs, file_path(c)) THEN "send403"
  ELSE IF ~isfile(fs, file_path(c)) THEN "send404"
  ELSE "read"

\* ParseTarget that answers every request line of other than three tokens
\* with 400 (len(parts) != 3)
ParseTargetNotThree(c) ==
  LET parts == request[c] IN
  IF Len(parts) # 3 THEN "send400"
  ELSE IF method(c) # GET THEN "send501"
  ELSE IF ~isfile(fs, file_path(c)) THEN "send404"
  ELSE IF ~access(fs, file_path(c)) THEN "send403"
  ELSE "read"

\* lines 17-45: parse the request line, resolve the path, pick the outcome
ParseTarget(c) ==
  LET parts == request[c] IN
  IF Len(parts) < 3 THEN "send400"
  ELSE IF Len(parts) > 3 THEN "raise"
  ELSE IF method(c) # GET THEN "send501"
  ELSE IF ~isfile(fs, file_path(c)) THEN "send404"
  ELSE IF ~access(fs, file_path(c)) THEN "send403"
  ELSE "read"

Parse(c) ==
  /\ pc[c] = "parse"
  /\ IF ParseTarget(c) = "raise"
     THEN Break(c, "exception")
     ELSE /\ pc' = [pc EXCEPT ![c] = ParseTarget(c)]
          /\ UNCHANGED exit
  /\ UNCHANGED <<listener, fs, request, content, nrecv, nreq, reads, out, partial, closes>>

\* open(file_path, 'rb') succeeds on a readable regular file
CanOpen(f, p) == Stat(f, p).type = "file" /\ Stat(f, p).readable

\* ReadFile that reports a failed open to the client as a missing file
ReadFileReport(c) ==
  /\ pc[c] = "read"
  /\ IF CanOpen(fs, file_path(c))
     THEN /\ content' = [content EXCEPT ![c] = FileBytes(file_path(c))]
          /\ reads' = [reads EXCEPT ![c] = @ + 1]
          /\ pc' = [pc EXCEPT ![c] = "send200"]
     ELSE /\ pc' = [pc EXCEPT ![c] = "send404"]
          /\ UNCHANGED <<content, reads>>
  /\ UNCHANGED <<listener, fs, request, nrecv, nreq, out, partial, closes, exit>>

\* lines 48-54: open and read the file; an error raises
ReadFile(c) ==
  /\ pc[c] = "read"
  /\ IF CanOpen(fs, file_path(c))
     THEN /\ content' = [content EXCEPT ![c] = FileBytes(file_path(c))]
          /\ reads' = [reads EXCEPT ![c] = @ + 1]
          /\ pc' = [pc EXCEPT ![c] = "send200"]
          /\ UNCHANGED exit
     ELSE /\ Break(c, "exception")
          /\ UNCHANGED <<content, reads>>
  /\ UNCHANGED <<listener, fs, request, nrecv, nreq, out, partial, closes>>

\* AfterSend without the HTTP/1.0 test of line 60
AfterSendKeepAlive(c) ==
  IF pc[c] = "send200" THEN "loop" ELSE Response(c).reason

\* where the handler goes after a send_response call returns
AfterSend(c) ==
  IF pc[c] = "send200"
  THEN (IF http_version(c) = HTTP10 THEN "http10" ELSE "loop")
  ELSE Response(c).reason

\* lines 23, 28, 41, 44, 57-61: sendall writes the whole response
SendResponse(c) ==
  /\ pc[c] \in SendPcs
  /\ out' = [out EXCEPT ![c] = Append(@, [n |-> nrecv[c], resp |-> Response(c)])]
  /\ IF AfterSend(c) = "loop"
     THEN /\ pc' = [pc EXCEPT ![c] = "recv"]
          /\ UNCHANGED exit
     ELSE Break(c, AfterSend(c))
  /\ UNCHANGED <<listener, fs, request, content, nrecv, nreq, reads, partial, closes>>

\* SendFail whose exception handler continues the loop instead of breaking
SendFailContinue(c) ==
  /\ pc[c] \in SendPcs
  /\ partial' = [partial EXCEPT ![c] = TRUE]
  /\ pc' = [pc EXCEPT ![c] = "recv"]
  /\ UNCHANGED <<listener, fs, request, content, nrecv, nreq, reads, out, closes, exit>>

\* SendFail whose exception is not caught in the thread and ends the server
SendFailFatal(c) ==
  /\ pc[c] \in SendPcs
  /\ partial' = [partial EXCEPT ![c] = TRUE]
  /\ Break(c, "exception")
  /\ listener' = "closed"
  /\ UNCHANGED <<fs, request, content, nrecv, nreq, reads, out, closes>>

\* sendall raises (timeout, broken pipe) after writing none or part of it
SendFail(c) ==
  /\ pc[c] \in SendPcs
  /\ partial' = [partial EXCEPT ![c] = TRUE]
  /\ Break(c, "exception")
  /\ UNCHANGED <<listener, fs, request, content, nrecv, nreq, reads, out, closes>>

\* line 69: client_socket.close()
Close(c) ==
  /\ pc[c] = "close"
  /\ closes' = [closes EXCEPT ![c] = @ + 1]
  /\ pc' = [pc EXCEPT ![c] = "done"]
  /\ UNCHANGED <<listener, fs, request, content, nrecv, nreq, reads, out, partial, exit>>

\* ------------------------------------------------------------ environment
\* another process removes, creates or changes the mode of a served file
Unlink(p) ==
  /\ fs[p].type = "file"
  /\ fs' = [fs EXCEPT ![p] = NoEntry]
  /\ UNCHANGED <<listener, pc, request, content, nrecv, nreq, reads, out, partial, closes, exit>>

Create(p) ==
  /\ fs[p].type = "none"
  /\ fs' = [fs EXCEPT ![p] = RegFile(TRUE)]
  /\ UNCHANGED <<listener, pc, request, content, nrecv, nreq, reads, out, partial, closes, exit>>

Chmod(p) ==
  /\ fs[p].type = "file"
  /\ fs' = [fs EXCEPT ![p] = RegFile(~fs[p].readable)]
  /\ UNCHANGED <<listener, pc, request, content, nrecv, nreq, reads, out, partial, closes, exit>>

\* ------------------------------------------------------------ start_server
\* Accept that runs the handler to its end before accepting again
AcceptInline ==
  /\ listener = "listening"
  /\ \A d \in Conns : pc[d] \in {"free", "done"}
  /\ \E c \in Conns :
       /\ pc[c] = "free"
       /\ \A d \in Conns : d < c => pc[d] # "free"
       /\ pc' = [pc EXCEPT ![c] = "start"]
  /\ UNCHANGED <<listener, fs, request, content, nrecv, nreq, reads, out, partial, closes, exit>>

\* lines 117-123: accept a connection and start its handler thread
Accept ==
  /\ listener = "listening"
  /\ \E c \in Conns :
       /\ pc[c] = "free"
       /\ \A d \in Conns : d < c => pc[d] # "free"
       /\ pc' = [pc EXCEPT ![c] = "start"]
  /\ UNCHANGED <<listener, fs, request, content, nrecv, nreq, reads, out, partial, closes, exit>>

\* Interrupt with daemon handler threads, which die with the main thread
InterruptAbort ==
  /\ listener = "listening"
  /\ listener' = "closed"
  /\ pc' = [c \in Conns |-> IF pc[c] = "free" THEN "free" ELSE "done"]
  /\ UNCHANGED <<fs, request, content, nrecv, nreq, reads, out, partial, closes, exit>>

\* lines 124-127: KeyboardInterrupt ends the accept loop, the socket is closed
Interrupt ==
  /\ listener = "listening"
  /\ listener' = "closed"
  /\ UNCHANGED <<fs, pc, request, content, nrecv, nreq, reads, out, partial, closes, exit>>

\* ---------------------------------------------------------- specifications
InitConn(p) ==
  /\ pc = p
  /\ request = [c \in Conns |-> <<>>]
  /\ content = [c \in Conns |-> <<>>]
  /\ nrecv = [c \in Conns |-> 0]
  /\ nreq = [c \in Conns |-> 0]
  /\ reads = [c \in Conns |-> 0]
  /\ out = [c \in Conns |-> <<>>]
  /\ partial = [c \in Conns |-> FALSE]
  /\ closes = [c \in Conns |-> 0]
  /\ exit = [c \in Conns |-> "none"]

\* one handler thread, just started for connection 1, with every input
Init ==
  /\ listener = "listening"
  /\ fs = InitFs
  /\ InitConn([c \in Conns |-> IF c = 1 THEN "start" ELSE "free"])

Next ==
  \/ \E c \in Conns : SetTimeout(c)
  \/ \E c \in Conns : \E data \in Chunks : Recv(c, data)
  \/ \E c \in Conns : RecvEof(c)
  \/ \E c \in Conns : RecvTimeout(c)
  \/ \E c \in Conns : RecvError(c)
  \/ \E c \in Conns : Parse(c)
  \/ \E c \in Conns : ReadFile(c)
  \/ \E c \in Conns : SendResponse(c)
  \/ \E c \in Conns : SendFail(c)
  \/ \E c \in Conns : Close(c)
  \/ \E p \in MutablePaths : Unlink(p)
  \/ \E p \in MutablePaths : Create(p)
  \/ \E p \in MutablePaths : Chmod(p)

Spec == Init /\ [][Next]_vars

\* one handler thread under fair scheduling.  The thread is scheduled, and
\* the timeout set at line 9 bounds every wait in recv and in sendall, so
\* each of the handler's own steps and the timeout eventually happen; what
\* the client and other processes do (send, close, reset, remove or create
\* a file) is not required to happen.
Progress(c) ==
  \/ SetTimeout(c)
  \/ RecvTimeout(c)
  \/ Parse(c)
  \/ ReadFile(c)
  \/ SendResponse(c)
  \/ SendFail(c)
  \/ Close(c)

NextFair ==
  \/ \E c \in Conns : Progress(c)
  \/ \E c \in Conns : \E data \in ServerChunks : Recv(c, data)
  \/ \E c \in Conns : RecvEof(c)
  \/ \E c \in Conns : RecvError(c)
  \/ Unlink(IndexFile)
  \/ Create(IndexFile)

FairSpec == Init /\ [][NextFair]_vars /\ \A c \in Conns : WF_vars(Progress(c))

\* the server: the accept loop and the handler threads it starts, over an
\* unchanging filesystem
InitServer ==
  /\ listener = "listening"
  /\ fs = InitFs
  /\ InitConn([c \in Conns |-> "free"])

NextServer ==
  \/ Accept
  \/ Interrupt
  \/ \E c \in Conns : SetTimeout(c)
  \/ \E c \in Conns : \E data \in ServerChunks : Recv(c, data)
  \/ \E c \in Conns : RecvEof(c)
  \/ \E c \in Conns : RecvTimeout(c)
  \/ \E c \in Conns : Parse(c)
  \/ \E c \in Conns : ReadFile(c)
  \/ \E c \in Conns : SendResponse(c)
  \/ \E c \in Conns : SendFail(c)
  \/ \E c \in Conns : Close(c)

SpecServer == InitServer /\ [][NextServer]_vars

\* two handler threads over one changing filesystem, one asked for "/" and
\* the other for "/index.html"
IndexChunks ==
  { [decodable |-> TRUE, parts |-> <<GET, p, v>>, cont |-> FALSE] :
      p \in {<<"/">>, <<"/", "index.html">>}, v \in Versions }

InitIndex ==
  /\ listener = "listening"
  /\ fs = InitFs
  /\ InitConn([c \in Conns |-> IF c \in {1, 2} THEN "start" ELSE "free"])

NextIndex ==
  \/ \E c \in {1, 2} : SetTimeout(c)
  \/ \E c \in {1, 2} : \E data \in IndexChunks : Recv(c, data)
  \/ \E c \in {1, 2} : RecvEof(c)
  \/ \E c \in {1, 2} : Parse(c)
  \/ \E c \in {1, 2} : ReadFile(c)
  \/ \E c \in {1, 2} : SendResponse(c)
  \/ \E c \in {1, 2} : Close(c)
  \/ Unlink(IndexFile)
  \/ Create(IndexFile)
  \/ Chmod(IndexFile)

SpecIndex == InitIndex /\ [][NextIndex]_vars

\* ------------------------------------------------------------ properties
StatusCodes == {200, 400, 403, 404, 501}

\* the current request has been received and its request line examined
Handled(c) == nrecv[c] > 0 /\ pc[c] # "parse"

\* the responses written in full for the current request
Answers(c) == SelectSeq(out[c], LAMBDA e : e.n = nrecv[c])

\* the current request line has exactly three tokens, the first being GET
IsGet(c) == Len(request[c]) = 3 /\ method(c) = GET

\* p lies strictly below the document root
InRoot(p) ==
  /\ Len(p) > Len(document_root) + 1
  /\ SubSeq(p, 1, Len(document_root)) = document_root
  /\ p[Len(document_root) + 1] = "/"

LoopExits ==
  {"eof", "idle_timeout", "Bad Request", "Not Implemented", "Not Found",
   "Forbidden", "http10", "exception"}

\* C1: on every way out of the handler's loop the client socket is closed
\* exactly once: a finished handler has closed it once, it is never closed
\* twice, and every loop exit leads to the close call and nowhere else.
C1_ClosedExactlyOnce ==
  \A c \in Conns :
    /\ closes[c] <= 1
    /\ (pc[c] = "done" <=> closes[c] = 1)
    /\ (pc[c] = "done" => exit[c] \in LoopExits)
    /\ (exit[c] # "none" => pc[c] \in {"close", "done"})

C1_Witness ==
  /\ pc[1] = "done" /\ closes[1] = 1 /\ exit[1] = "exception"
  /\ partial[1] /\ nrecv[1] = 2

\* C2: a GET whose normalised path lies outside the document root is
\* answered 404, and the bytes of the file at that place are never sent.
C2_TraversalIs404 ==
  \A c \in Conns :
    (Handled(c) /\ IsGet(c) /\ ~InRoot(file_path(c))) =>
      \A i \in 1..Len(Answers(c)) :
        /\ Answers(c)[i].resp.code = 404
        /\ Answers(c)[i].resp.body # FileBytes(file_path(c))

C3_Http10Closes ==
  \A c \in Conns :
    (Handled(c) /\ Len(request[c]) = 3 /\ http_version(c) = HTTP10) =>
      /\ pc[c] # "recv"
      /\ Len(Answers(c)) <= 1
      /\ (pc[c] \in {"close", "done"} /\ exit[c] # "exception" => Len(Answers(c)) = 1)

C3_Http11Loops ==
  \A c \in Conns :
    (pc[c] = "send200" /\ http_version(c) = HTTP11 /\ out'[c] # out[c]) =>
      /\ pc'[c] = "recv"
      /\ exit'[c] = "none"

\* C3: a request whose version is HTTP/1.0 gets at most one response, exactly
\* one unless a failure cut it short, and the handler never reads again on
\* that connection; a 200 written for an HTTP/1.1 request takes the handler
\* back to the read of the next request.
C3_KeepAlive == []C3_Http10Closes /\ [][C3_Http11Loops]_vars

C3_Witness ==
  /\ Len(out[1]) = 2
  /\ out[1][1].resp.code = 200 /\ out[1][1].resp.version = HTTP11
  /\ out[1][2].n = 2 /\ out[1][2].resp.code = 200 /\ out[1][2].resp.version = HTTP10
  /\ pc[1] = "done"

C4_Resolve ==
  \A c \in Conns :
    (pc[c] = "parse" /\ pc'[c] # "parse" /\ IsGet(c) /\ InRoot(file_path(c))
       /\ Stat(fs, file_path(c)) = RegFile(TRUE)) => pc'[c] = "read"

C4_Read ==
  \A c \in Conns :
    (pc[c] = "read" /\ pc'[c] # "read" /\ InRoot(file_path(c))
       /\ Stat(fs, file_path(c)) = RegFile(TRUE)) =>
      /\ pc'[c] = "send200"
      /\ reads'[c] = 1

C4_Send ==
  \A c \in Conns :
    (pc[c] = "send200" /\ InRoot(file_path(c)) /\ out'[c] # out[c]) =>
      /\ reads[c] = 1
      /\ Len(out'[c]) = Len(out[c]) + 1
      /\ LET r == out'[c][Len(out'[c])].resp IN
           /\ r.code = 200
           /\ r.body = FileBytes(file_path(c))
           /\ r.clen = Len(FileBytes(file_path(c)))

\* C4: a GET for a readable regular file inside the document root is read
\* once and answered 200 with the file's bytes as body and their number as
\* Content-Length.
C4_FileServed == [][C4_Resolve /\ C4_Read /\ C4_Send]_vars

C4_Witness ==
  /\ Len(out[1]) = 1 /\ out[1][1].resp.code = 200
  /\ file_path(1) = PlainFile /\ out[1][1].resp.body = FileBytes(PlainFile)
  /\ out[1][1].resp.clen = 3 /\ reads[1] = 1

\* C5: a request line of fewer than three tokens is answered 400 Bad Request
\* with HTTP/1.1 in the status line, and the connection is then closed
\* without another read.
C5_ShortLineIs400 ==
  \A c \in Conns :
    (Handled(c) /\ Len(request[c]) < 3) =>
      /\ pc[c] \in {"send400", "close", "done"}
      /\ reads[c] = 0
      /\ Len(Answers(c)) <= 1
      /\ (pc[c] \in {"close", "done"} /\ ~partial[c] => Len(Answers(c)) = 1)
      /\ \A i \in 1..Len(Answers(c)) :
           /\ Answers(c)[i].resp.code = 400
           /\ Answers(c)[i].resp.reason = "Bad Request"
           /\ Answers(c)[i].resp.version = HTTP11

C5_Witness ==
  /\ pc[1] = "done" /\ request[1] = <<>> /\ nrecv[1] = 1
  /\ Len(out[1]) = 1 /\ out[1][1].resp.code = 400

\* C6: a three-token request line whose method is not GET is answered 501
\* with the request's own version token and the connection is closed; it
\* never yields another status and never opens a file, whatever its path.
C6_NonGetIs501 ==
  \A c \in Conns :
    (Handled(c) /\ Len(request[c]) = 3 /\ method(c) # GET) =>
      /\ pc[c] \in {"send501", "close", "done"}
      /\ reads[c] = 0
      /\ Len(Answers(c)) <= 1
      /\ (pc[c] \in {"close", "done"} /\ ~partial[c] => Len(Answers(c)) = 1)
      /\ \A i \in 1..Len(Answers(c)) :
           /\ Answers(c)[i].resp.code = 501
           /\ Answers(c)[i].resp.version = http_version(c)

C6_Witness ==
  /\ pc[1] = "done" /\ request[1] = <<POST, <<"/", "nope">>, HTTP10>>
  /\ Len(out[1]) = 1 /\ out[1][1].resp.code = 501
  /\ out[1][1].resp.version = HTTP10

C7_Classify ==
  \A c \in Conns :
    (pc[c] = "parse" /\ pc'[c] # "parse" /\ IsGet(c)) =>
      pc'[c] = (IF Stat(fs, file_path(c)).type # "file" THEN "send404"
                ELSE IF ~Stat(fs, file_path(c)).readable THEN "send403"
                ELSE "read")

C7_ErrorCloses ==
  \A c \in Conns :
    pc[c] \in {"send404", "send403"} =>
      /\ reads[c] = 0
      /\ Response(c).code = (IF pc[c] = "send404" THEN 404 ELSE 403)
      /\ pc'[c] \in {pc[c], "close"}
      /\ reads'[c] = 0

\* C7: for a GET, no regular file at the normalised path gives 404, a
\* regular file that is not readable gives 403, anything else goes on to
\* read the file; the existence test comes first, and in both error cases
\* no file is opened and no further request is read.
C7_PathOutcome == [][C7_Classify /\ C7_ErrorCloses]_vars

C7_Witness ==
  /\ pc[1] = "done" /\ exit[1] = "Forbidden"
  /\ Len(out[1]) = 1 /\ out[1][1].resp.code = 403 /\ reads[1] = 0

C8_TimeoutStep ==
  \A c \in Conns :
    (pc[c] = "recv" /\ exit'[c] = "idle_timeout") =>
      /\ pc'[c] = "close"
      /\ out'[c] = out[c]

C8_TimeoutState ==
  \A c \in Conns :
    exit[c] = "idle_timeout" =>
      /\ pc[c] \in {"close", "done"}
      /\ Len(out[c]) = nrecv[c]
      /\ \A i \in 1..Len(out[c]) : out[c][i].resp.code = 200

\* C8: when a wait for a request ends in the idle timeout, on the first read
\* or on a later one, the handler goes to the close and writes no response
\* for that wait.
C8_IdleTimeout == []C8_TimeoutState /\ [][C8_TimeoutStep]_vars

C8_Witness ==
  /\ pc[1] = "done" /\ exit[1] = "idle_timeout"
  /\ nrecv[1] = 1 /\ Len(out[1]) = 1

\* C9: on every connection, under every interleaving of the handlers, the
\* responses follow the requests one by one: a request is read only when
\* every earlier request has its full response, and at most one request is
\* unanswered at any time.
C9_Sequential ==
  \A c \in Conns :
    /\ Len(out[c]) <= nrecv[c]
    /\ nrecv[c] - Len(out[c]) <= 1
    /\ \A i \in 1..Len(out[c]) : out[c][i].n = i
    /\ (pc[c] = "recv" => Len(out[c]) = nrecv[c] /\ ~partial[c])

C9_Witness ==
  /\ pc[1] = "send200" /\ nrecv[1] = 2 /\ Len(out[1]) = 1
  /\ pc[2] = "recv" /\ nrecv[2] = 1 /\ Len(out[2]) = 1

\* C10: every response a handler writes or is about to write has a status
\* code among 200, 400, 403, 404 and 501.
C10_StatusCodes ==
  \A c \in Conns :
    /\ \A i \in 1..Len(out[c]) : out[c][i].resp.code \in StatusCodes
    /\ (pc[c] \in SendPcs => Response(c).code \in StatusCodes)

C10_Witness ==
  /\ Len(out[1]) = 2
  /\ out[1][1].resp.code = 200 /\ out[1][2].resp.code = 403

\* the number of leading elements of w that are not body bytes
RECURSIVE HeadLen(_)
HeadLen(w) == IF w = <<>> \/ Head(w).t = "byte" THEN 0 ELSE 1 + HeadLen(Tail(w))

Framed(r) ==
  LET w == wire(r) IN
  /\ HeadLen(w) = 9
  /\ w[1].t = "status" /\ w[1].version = r.version /\ w[1].code = r.code
  /\ w[2].t = "crlf"
  /\ w[3].t = "header" /\ w[3].name = "Content-Type"
  /\ w[4].t = "crlf"
  /\ w[5].t = "length" /\ w[5].name = "Content-Length"
  /\ w[6].t = "crlf"
  /\ w[7].t = "header" /\ w[7].name = "Connection"
  /\ w[8].t = "crlf"
  /\ w[9].t = "crlf"
  /\ \A i \in 10..Len(w) : w[i].t = "byte"
  /\ w[5].value = Len(w) - 9
  /\ IF r.code = 200
     THEN w[7].value = (IF r.version = HTTP11 THEN "keep-alive" ELSE "close")
     ELSE w[3].value = "text/html" /\ w[7].value = "close"

\* C11: every response is status line, Content-Type, Content-Length,
\* Connection, each ended by CRLF, an empty line, then the body; the
\* Content-Length value is the number of body bytes; an error response has
\* Content-Type text/html and Connection close; a 200 has Connection
\* keep-alive exactly when its version is HTTP/1.1.
C11_Framing ==
  \A c \in Conns :
    /\ \A i \in 1..Len(out[c]) : Framed(out[c][i].resp)
    /\ (pc[c] \in SendPcs => Framed(Response(c)))

C11_Witness ==
  /\ Len(out[1]) = 2
  /\ out[1][1].resp.code = 200 /\ out[1][1].resp.version = HTTP20
  /\ out[1][1].resp.body = FileBytes(PlainFile)
  /\ out[1][2].resp.code = 404 /\ out[1][2].resp.clen = 48

\* connection 1 was asked for "/" and connection 2 for "/index.html", with
\* the same version token
RootAndIndex ==
  /\ nrecv[1] > 0 /\ nrecv[2] > 0
  /\ request[1][2] = <<"/">>
  /\ request[2][2] = <<"/", "index.html">>
  /\ http_version(1) = http_version(2)

\* C12: in every filesystem state and for every version token, each step of
\* the handler does for a GET of "/" what it does for a GET of "/index.html":
\* the same file is resolved and classified, the same bytes are read, the
\* same response (status, headers, body) is written and the same choice
\* between another read and the close is made.
C12_RootIsIndex ==
  RootAndIndex =>
    /\ file_path(1) = file_path(2)
    /\ ParseTarget(1) = ParseTarget(2)
    /\ (pc[1] = pc[2] /\ pc[1] \in SendPcs =>
          /\ wire(Response(1)) = wire(Response(2))
          /\ AfterSend(1) = AfterSend(2))
    /\ (pc[1] = pc[2] /\ pc[1] = "read" =>
          /\ CanOpen(fs, file_path(1)) = CanOpen(fs, file_path(2))
          /\ FileBytes(file_path(1)) = FileBytes(file_path(2)))

C12_Witness ==
  /\ RootAndIndex /\ http_version(1) = HTTP20
  /\ Len(out[1]) = 1 /\ Len(out[2]) = 1
  /\ out[1][1].resp.code = 403 /\ out[2][1].resp.code = 403

\* everything the model keeps for connection c
ConnState(c) ==
  <<pc[c], request[c], content[c], nrecv[c], nreq[c], reads[c], out[c], partial[c],
    closes[c], exit[c]>>

\* a step of the handler thread of connection c
HandlerStep(c) == pc[c] # "free" /\ pc'[c] # pc[c]

C13_StepIsLocal ==
  \A c \in Conns :
    HandlerStep(c) =>
      /\ listener' = listener
      /\ \A d \in Conns \ {c} : ConnState(d)' = ConnState(d)

C13_AcceptSurvives ==
  \A c \in Conns :
    (exit[c] # "none" /\ listener = "listening" /\ \E d \in Conns : pc[d] = "free")
      => ENABLED Accept

\* C13: a step of one connection's handler, its failures included, changes
\* only that connection: every other connection and the listening socket
\* stay as they were, and after any handler's exit the accept loop can
\* still accept.
C13_Isolation == []C13_AcceptSurvives /\ [][C13_StepIsLocal]_vars

C13_Witness ==
  /\ exit[1] = "exception" /\ pc[1] = "done"
  /\ listener = "listening" /\ pc[2] = "send200" /\ nrecv[2] = 2

\* a handler is blocked in a read, a file read or a write
Blocked(c) == pc[c] \in {"recv", "read"} \cup SendPcs

C14_CanAccept ==
  (listener = "listening" /\ \E d \in Conns : pc[d] = "free") => ENABLED Accept

C14_OneHandler ==
  (\E c \in Conns : pc[c] = "free" /\ pc'[c] # "free") =>
    /\ Cardinality({c \in Conns : pc'[c] # pc[c]}) = 1
    /\ \A c \in Conns :
         IF pc'[c] # pc[c]
         THEN pc'[c] = "start" /\ ConnState(c)' = <<"start">> \o Tail(ConnState(c))
         ELSE ConnState(c)' = ConnState(c)

\* C14: whatever the handlers are doing, blocked ones included, a listening
\* server with room for a connection can accept one, and accepting starts
\* exactly one handler and touches no other.
C14_AcceptNeverWaits == []C14_CanAccept /\ [][C14_OneHandler]_vars

C14_Witness ==
  /\ Blocked(1) /\ pc[1] = "send200" /\ pc[2] = "start" /\ listener = "listening"

C15_StopsAccepting ==
  /\ (listener = "closed" => listener' = "closed")
  /\ (listener = "closed" => \A c \in Conns : pc[c] = "free" => pc'[c] = "free")

C15_HandlersUntouched ==
  listener' # listener => \A c \in Conns : ConnState(c)' = ConnState(c)

C15_HandlersGoOn ==
  listener = "closed" =>
    \A c \in Conns :
      /\ (pc[c] \notin {"free", "done"} =>
            ENABLED (SetTimeout(c) \/ RecvEof(c) \/ RecvTimeout(c) \/ Parse(c)
                       \/ ReadFile(c) \/ SendResponse(c) \/ Close(c)))
      /\ (pc[c] = "done" => closes[c] = 1 /\ exit[c] \in LoopExits)

\* C15: an interrupt closes the listening socket and no connection is
\* accepted afterwards; it changes no handler's state, every running
\* handler can still take its next step, and a handler that finishes has
\* left its loop by one of the loop's exits and closed its socket once.
C15_Interrupt ==
  []C15_HandlersGoOn /\ [][C15_StopsAccepting /\ C15_HandlersUntouched]_vars

C15_Witness ==
  /\ listener = "closed"
  /\ pc[1] = "done" /\ exit[1] = "http10" /\ Len(out[1]) = 2
  /\ pc[2] = "send200" /\ pc[1] # "free"

\* C16: header lines that follow a request line, also when they arrive in
\* a later read than the request line, are not taken for a request line, so
\* a connection never carries more responses than the client sent requests.
C16_OneResponsePerRequest ==
  \A c \in Conns :
    Len(out[c]) <= nreq[c]

C17_FailureStep ==
  \A c \in Conns :
    /\ (pc[c] = "read" /\ pc'[c] # "read" /\ ~CanOpen(fs, file_path(c)) =>
          pc'[c] = "close" /\ exit'[c] = "exception" /\ out'[c] = out[c])
    /\ (exit[c] = "none" /\ exit'[c] = "exception" =>
          pc'[c] = "close" /\ out'[c] = out[c])
    /\ (exit[c] = "exception" =>
          out'[c] = out[c] /\ exit'[c] = "exception" /\ pc'[c] \in {pc[c], "done"})

C17_FailureState ==
  \A c \in Conns :
    (partial[c] \/ exit[c] = "exception") =>
      /\ pc[c] \in {"close", "done"}
      /\ exit[c] = "exception"
      /\ (partial[c] => Len(Answers(c)) = 0)

\* C17: a failure of the receive, the decode, the open or read of the file
\* or the send takes the handler straight to the close: from the failure on
\* it writes nothing more to the client and reads no further request.
C17_FailureCloses == []C17_FailureState /\ [][C17_FailureStep]_vars

C17_Witness ==
  /\ pc[1] = "done" /\ exit[1] = "exception" /\ ~partial[1]
  /\ IsGet(1) /\ file_path(1) = PlainFile /\ fs[PlainFile].type = "none"
  /\ reads[1] = 0 /\ Len(out[1]) = 1 /\ nrecv[1] = 2

\* C19: the Connection header and the handler's next move agree: after a
\* response with Connection: close the handler does not read again, and a
\* handler that waits for another request has last sent Connection:
\* keep-alive.
C19_ConnectionHeaderAgrees ==
  \A c \in Conns :
    Len(out[c]) > 0 =>
      LET last == out[c][Len(out[c])].resp IN
      /\ (last.conn = "close" => pc[c] \in {"close", "done"})
      /\ (pc[c] \in {"recv", "parse", "read"} \cup SendPcs => last.conn = "keep-alive")

\* C20: a request line of more than three tokens makes the handler close the
\* connection with no response written for it, no file opened and no
\* further read.
C20_LongLineClosesSilently ==
  \A c \in Conns :
    (Handled(c) /\ Len(request[c]) > 3) =>
      /\ pc[c] \in {"close", "done"}
      /\ exit[c] = "exception"
      /\ ~partial[c]
      /\ Len(Answers(c)) = 0
      /\ reads[c] = 0

C20_Witness ==
  /\ pc[1] = "done" /\ nrecv[1] = 2 /\ Len(out[1]) = 1
  /\ request[1] = <<GET, <<"/">>, HTTP11, <<"x">> >>

\* C18: under fair scheduling of the handler and of the idle timeout, and
\* with finitely many requests from the client, every handler that was
\* started ends with its socket closed; it does not wait for a request
\* for ever.
C18_EventuallyClosed ==
  \A c \in Conns : (pc[c] # "free") ~> (pc[c] = "done" /\ closes[c] = 1)

C18_Witness ==
  /\ pc[1] = "done" /\ closes[1] = 1 /\ exit[1] = "idle_timeout"
  /\ nrecv[1] = 2 /\ Len(out[1]) = 2

====
